---- MODULE Spec2Model ----
(***************************************************************************)
(* Model of src/version_checker.py: the Helm chart version checker.        *)
(* One run of main() walks the discovered values.yaml files, resolves the  *)
(* latest chart version of every application from its repository index,   *)
(* and files an issue in the tracker when the declared version differs.    *)
(* The tracker is the only state that survives a run.                      *)
(***************************************************************************)
EXTENDS Integers, Sequences, FiniteSets, TLC

(***************************************************************************)
(* Bounds of the model.                                                    *)
(***************************************************************************)
MaxRuns == 2      \* runs of main() against the same tracker
PerPage == 1      \* issues the tracker returns per page (per_page in the code)
MaxOpen == 1      \* open issues in the tracker before the first run

(***************************************************************************)
(* Python values.  None is a value of its own; str(None) is "None".        *)
(* Strings that the code takes apart character by character (the           *)
(* repository URL) are sequences of characters.                            *)
(***************************************************************************)
PyNone == "<None>"
Absent == "<absent>"
PyNoneChars == <<"<None>">>

Truthy(v) == v # PyNone /\ v # ""

TruthyChars(u) == u # PyNoneChars /\ u # <<>>

\* dict.get(key, default) on a field that is either Absent or holds a value
DictGet(v, default) == IF v = Absent THEN default ELSE v

\* str(x) for x None or a string
Str(v) == IF v = PyNone THEN "None" ELSE v

RECURSIVE rstrip(_, _)
rstrip(u, c) ==
    IF u # <<>> /\ u[Len(u)] = c THEN rstrip(SubSeq(u, 1, Len(u) - 1), c) ELSE u

IndexYaml == <<"/", "i", "n", "d", "e", "x", ".", "y", "a", "m", "l">>

\* line 56: f"{repo_url.rstrip('/')}/index.yaml"
index_url(repo_url) == rstrip(repo_url, "/") \o IndexYaml

(***************************************************************************)
(* The inputs of a run.                                                    *)
(***************************************************************************)
Groups == <<"firsttest-apps", "secondtest-apps">>
\* the application each group's values.yaml declares
AppName(group) == IF group = Groups[1] THEN "certManager" ELSE "argocd"
Versions == {"v1", "v2"}
ChartName == "cert-manager"
charts_dir_path == "charts"

UrlPlain == <<"h", ":", "/", "/", "r">>
UrlSlash == <<"h", ":", "/", "/", "r", "/">>
UrlNull == <<"n", "u", "l", "l">>

\* The value stored under an application name in values.yaml.  repoURL and
\* chart hold what details.get(key) returns (None when the key is absent);
\* targetRevision is Absent when the key is absent, for its get has a default.
NotADict == [isdict |-> FALSE, repoURL |-> PyNoneChars, targetRevision |-> Absent, chart |-> PyNone]

DetailsSet ==
    {NotADict,
     [isdict |-> TRUE, repoURL |-> UrlPlain, targetRevision |-> "v1", chart |-> PyNone],
     [isdict |-> TRUE, repoURL |-> UrlSlash, targetRevision |-> Absent, chart |-> ChartName]}
    \cup {[isdict |-> TRUE, repoURL |-> u, targetRevision |-> "v1", chart |-> ChartName] :
            u \in {PyNoneChars, <<>>, UrlNull}}
    \cup {[isdict |-> TRUE, repoURL |-> UrlPlain, targetRevision |-> t, chart |-> ChartName] :
            t \in {Absent, PyNone, ""} \cup Versions}

\* what yaml.safe_load gives for a values.yaml: an error, None, or a mapping
ValuesDocs(group) ==
    {[parse |-> "error", apps |-> <<>>], [parse |-> "null", apps |-> <<>>]}
    \cup {[parse |-> "mapping", apps |-> <<[name |-> AppName(group), details |-> d]>>] :
            d \in DetailsSet}

\* the result of Path(charts_dir_path).glob("*/values.yaml")
FileLists == {<<>>, <<Groups[1]>>, <<Groups[2]>>, Groups}

Range(s) == {s[i] : i \in DOMAIN s}

\* The index document a chart repository serves.  kind is what
\* yaml.safe_load makes of the body; a mapping may have the key 'entries',
\* which maps chart names to lists of entries.
IndexDoc(kind, hasEntries, charts) ==
    [kind |-> kind, hasEntries |-> hasEntries, charts |-> charts]

Entry(v) == [hasVersion |-> TRUE, version |-> v]
NoVersionEntry == [hasVersion |-> FALSE, version |-> PyNone]

EntriesOf(versions) == [i \in DOMAIN versions |-> Entry(versions[i])]

HealthyDoc(versions) == IndexDoc("mapping", TRUE, ChartName :> EntriesOf(versions))

BrokenDocs ==
    {IndexDoc(k, FALSE, <<>>) : k \in {"invalid", "null", "scalar", "sequence", "mapping"}}
    \cup {IndexDoc("mapping", TRUE, "other-chart" :> <<Entry("v9")>>),
          IndexDoc("mapping", TRUE, ChartName :> <<>>),
          IndexDoc("mapping", TRUE, ChartName :> <<NoVersionEntry>>),
          IndexDoc("mapping", TRUE, ChartName :> <<Entry("")>>)}

NoResponse == [status |-> "none", doc |-> IndexDoc("null", FALSE, <<>>)]
FailedResponse == [status |-> "error", doc |-> IndexDoc("null", FALSE, <<>>)]

\* the responses the repository may give to one GET of index.yaml
IndexResponses(versions) ==
    {FailedResponse}
    \cup {[status |-> "ok", doc |-> d] : d \in BrokenDocs \cup {HealthyDoc(versions)}}

\* the version lists a healthy repository serves, newest first or not
UpstreamLists == {<<"v2", "v1">>, <<"v1", "v2">>}

\* The maintainers file as open() and yaml.safe_load find it.
MaintainerLists == {<<>>, <<"gh-user1">>, <<"gh-user2">>}
MaintainerKeys == {Groups[1], "default"}

MaintainerDoc(state, m) == [state |-> state, m |-> m]

MaintainerDocs ==
    {MaintainerDoc(s, <<>>) : s \in {"missing", "error", "null"}}
    \cup {MaintainerDoc("mapping", m) :
            m \in UNION {[K -> MaintainerLists] : K \in SUBSET MaintainerKeys}}

NoDoc == MaintainerDoc("unread", <<>>)

(***************************************************************************)
(* get_maintainers (lines 32-48).                                          *)
(***************************************************************************)
\* get_maintainers without the fallback to 'default' of lines 38-40
get_maintainers_without_default(file, app_group) ==
    IF file.state # "mapping" \/ app_group \notin DOMAIN file.m
    THEN <<>>
    ELSE file.m[app_group]

\* maintainers_data.get(key, [])
MaintainersGet(m, key) == IF key \in DOMAIN m THEN m[key] ELSE <<>>

get_maintainers(file, app_group) ==
    IF file.state # "mapping"
    THEN <<>>                      \* FileNotFoundError, or any other Exception
    ELSE LET assignees == MaintainersGet(file.m, app_group)
         IN  IF assignees = <<>>
             THEN MaintainersGet(file.m, "default")
             ELSE assignees

(***************************************************************************)
(* get_latest_helm_version (lines 50-67): what the function does with the  *)
(* response to its GET.  The result is a version, None, or the exception   *)
(* that leaves the function.                                               *)
(***************************************************************************)
Returned(v) == [raised |-> "", value |-> v]
Raised(e) == [raised |-> e, value |-> PyNone]

\* index_data['entries'][chart_name][0]['version'] (line 61)
LookupVersion(doc, chart_name) ==
    IF doc.kind # "mapping" THEN Raised("TypeError")
    ELSE IF ~doc.hasEntries THEN Raised("KeyError")
    ELSE IF chart_name \notin DOMAIN doc.charts THEN Raised("KeyError")
    ELSE IF doc.charts[chart_name] = <<>> THEN Raised("IndexError")
    ELSE IF ~doc.charts[chart_name][1].hasVersion THEN Raised("KeyError")
    ELSE Returned(doc.charts[chart_name][1].version)

\* lines 57-67: the try block and its two except clauses
ParseIndexResponse(response, chart_name) ==
    IF response.status # "ok"
    THEN Returned(PyNone)                                   \* RequestException
    ELSE IF response.doc.kind = "invalid"
    THEN Raised("YAMLError")                                \* yaml.safe_load
    ELSE LET r == LookupVersion(response.doc, chart_name)
         IN  IF r.raised \in {"KeyError", "IndexError", "TypeError"}
             THEN Returned(PyNone)
             ELSE r

\* line 52 without the comparison with "null"
InvalidRepoUrlIgnoringNull(repo_url) == ~TruthyChars(repo_url)

\* line 52: the URLs for which no request is made
InvalidRepoUrl(repo_url) == ~TruthyChars(repo_url) \/ repo_url = UrlNull

(***************************************************************************)
(* The issue tracker: the open issues, newest first, served in pages.      *)
(***************************************************************************)
Title(name, latest_version) == "New Version Available: " \o name \o " " \o latest_version

Issue(title, number) == [title |-> title, number |-> number]

Min(a, b) == IF a < b THEN a ELSE b

\* the issues on page k of the listing
PageOf(issues, k) == SubSeq(issues, (k - 1) * PerPage + 1, Min(k * PerPage, Len(issues)))

\* a client that never follows a "next" link
NoNextLink(issues, k) == FALSE

\* whether the response for page k carries a "next" link
HasNext(issues, k) == k * PerPage < Len(issues)

\* a scan that reads the title under a key no issue has, and so never matches
ScanPageWrongKey(issues, title) == <<>>

\* lines 88-90: the number of the first issue of the page with the title
RECURSIVE ScanPage(_, _)
ScanPage(issues, title) ==
    IF issues = <<>> THEN <<>>
    ELSE IF Head(issues).title = title THEN <<Head(issues).number>>
    ELSE ScanPage(Tail(issues), title)

\* the issues with numbers Len .. 1, whose titles are given newest first
Numbered(titles) == [i \in DOMAIN titles |-> Issue(titles[i], Len(titles) - i + 1)]

OtherTitles == {"Wrong issue"}

SeqsUpTo(S, n) == UNION {[1..k -> S] : k \in 0..n}

InitialTrackers ==
    {Numbered(t) : t \in SeqsUpTo(OtherTitles \cup {Title("certManager", "v2")}, MaxOpen)}

\* lines 215-222: the body, as the pieces of the f-string
value_file(app_group) == charts_dir_path \o "/" \o app_group \o "/values.yaml"

Body(name, target_revision, latest_version, repo, app_group) ==
    << "New version available for ", name, "!",
       "Current targetRevision set: ", target_revision,
       "New version available: ", latest_version,
       "Please consider creating a PR to update the targetRevision in this file: ",
       value_file(app_group), "https://github.com/", repo, "/blob/main/",
       value_file(app_group), "Thanks." >>

(***************************************************************************)
(* The state: the inputs of main(), the tracker, and the position and      *)
(* locals of the run in progress.  log holds what the run has requested    *)
(* and printed so far.                                                     *)
(***************************************************************************)
VARIABLES
    REPO,                   \* GITHUB_REPOSITORY, None when unset
    github_token,           \* --token
    values_files,           \* the groups whose values.yaml the glob finds
    values_yaml,            \* group -> the content of its values.yaml
    upstream,               \* the versions the repository lists for the chart
    tracker,                \* the open issues, newest first
    pc,                     \* where main() is
    run,                    \* the number of the run in progress
    fi,                     \* position in values_files
    ai,                     \* position in apps_data.items()
    response,               \* the last response to a GET of index.yaml
    latest_version,
    title,
    page,                   \* the page check_existing_issue requests next
    visited,                \* the pages it has requested in this call
    list_failed,            \* whether a request of this call failed
    existing_issue_number,  \* <<>> for None, else <<number>>
    maintainers_data,       \* the maintainers file as last read
    assignees,
    log,                    \* requests and prints of this run, in order
    created_before          \* the applications an earlier run created issues for

env == <<REPO, github_token, values_files, values_yaml, upstream>>
locals == <<response, latest_version, title, page, visited, list_failed,
            existing_issue_number, maintainers_data, assignees>>
vars == <<env, tracker, pc, run, fi, ai, locals, log, created_before>>

app_group == values_files[fi]
apps_data == values_yaml[app_group].apps
name == apps_data[ai].name
details == apps_data[ai].details
app == <<fi, ai>>

\* line 183: str(details.get("targetRevision", ""))
target_revision_of(d) == Str(DictGet(d.targetRevision, ""))
target_revision == target_revision_of(details)

Terminal == {"finished", "no_files", "exit_1", "uncaught"}

Init ==
    /\ REPO \in {PyNone, "adfinis/gitops"}
    /\ github_token \in {"", "token"}
    /\ values_files \in FileLists
    /\ values_yaml \in [Range(values_files) -> UNION {ValuesDocs(g) : g \in Range(Groups)}]
    /\ \A g \in Range(values_files) : values_yaml[g] \in ValuesDocs(g)
    /\ upstream \in UpstreamLists
    /\ tracker \in InitialTrackers
    /\ pc = "start"
    /\ run = 1
    /\ fi = 0
    /\ ai = 0
    /\ response = NoResponse
    /\ latest_version = PyNone
    /\ title = ""
    /\ page = 0
    /\ visited = <<>>
    /\ list_failed = FALSE
    /\ existing_issue_number = <<>>
    /\ maintainers_data = NoDoc
    /\ assignees = <<>>
    /\ log = <<>>
    /\ created_before = {}

\* line 147 without the test of the token
FatalPreconditionIgnoringToken(repo, token) == ~Truthy(repo)

\* line 147: not REPO or not github_token
FatalPrecondition(repo, token) == ~Truthy(repo) \/ ~Truthy(token)

\* the error message printed before sys.exit(1) (lines 148 and 152)
FatalEntry(what) == [op |-> "fatal", what |-> what]

\* lines 141-160: the fatal preconditions and the discovery of the files
Start ==
    /\ pc = "start"
    /\ \E is_file \in BOOLEAN :
          IF FatalPrecondition(REPO, github_token)
          THEN pc' = "exit_1" /\ log' = Append(log, FatalEntry("repository_or_token"))
          ELSE IF ~is_file
          THEN pc' = "exit_1" /\ log' = Append(log, FatalEntry("maintainers_file"))
          ELSE /\ pc' = IF values_files = <<>> THEN "no_files" ELSE "file"
               /\ log' = log
    /\ fi' = 1
    /\ UNCHANGED <<env, tracker, run, ai, locals, created_before>>

\* line 228: the loop over the files is over
Finish ==
    /\ pc = "file"
    /\ fi > Len(values_files)
    /\ pc' = "finished"
    /\ UNCHANGED <<env, tracker, run, fi, ai, locals, log, created_before>>

\* a parse error of a values.yaml that is not caught
ParseErrorEscapes == "uncaught"

\* lines 169-171: the except clause logs the error and goes on with the next file
AfterParseError == "file"

\* lines 162-174: open and parse the next values.yaml
NextFile ==
    /\ pc = "file"
    /\ fi <= Len(values_files)
    /\ log' = Append(log, [op |-> "open", file |-> fi,
                           parse |-> values_yaml[app_group].parse])
    /\ IF values_yaml[app_group].parse = "error"
       THEN pc' = AfterParseError /\ ai' = ai /\ fi' = fi + 1
       ELSE IF values_yaml[app_group].parse = "mapping" /\ apps_data # <<>>
       THEN pc' = "app" /\ ai' = 1 /\ fi' = fi
       ELSE pc' = "file" /\ ai' = ai /\ fi' = fi + 1
    /\ UNCHANGED <<env, tracker, run, locals, created_before>>

\* the loop over the applications of the file is over
EndOfFile ==
    /\ pc = "app"
    /\ ai > Len(apps_data)
    /\ pc' = "file"
    /\ fi' = fi + 1
    /\ UNCHANGED <<env, tracker, run, ai, locals, log, created_before>>

\* lines 176-189: the next application, up to the call of the resolver
NextApp ==
    /\ pc = "app"
    /\ ai <= Len(apps_data)
    /\ IF ~details.isdict \/ ~Truthy(details.chart)
       THEN /\ pc' = "app" /\ ai' = ai + 1
            /\ log' = Append(log, [op |-> "skip_warning", app |-> app])
       ELSE /\ pc' = "resolve" /\ ai' = ai
            /\ log' = log
    /\ UNCHANGED <<env, tracker, run, fi, locals, created_before>>

\* lines 50-67: get_latest_helm_version
GetLatestHelmVersion ==
    /\ pc = "resolve"
    /\ IF InvalidRepoUrl(details.repoURL)
       THEN /\ latest_version' = PyNone
            /\ pc' = "compare"
            /\ UNCHANGED <<response, log>>
       ELSE \E r \in IndexResponses(upstream) :
               LET result == ParseIndexResponse(r, details.chart)
               IN  /\ response' = r
                   /\ log' = Append(log, [op |-> "get_index", app |-> app,
                                          url |-> index_url(details.repoURL)])
                   /\ latest_version' = result.value
                   /\ pc' = IF result.raised = "" THEN "compare" ELSE "uncaught"
    /\ UNCHANGED <<env, tracker, run, fi, ai, title, page, visited, list_failed,
                   existing_issue_number, maintainers_data, assignees, created_before>>

\* line 202 without its second conjunct
TriggersOnAnyDifference(latest, declared) == latest # declared

\* line 202
Triggers(latest, declared) == latest # declared /\ Truthy(declared)

\* lines 193-205: the comparison, up to the call of check_existing_issue
Compare ==
    /\ pc = "compare"
    /\ response' = NoResponse
    /\ IF ~Truthy(latest_version)
       THEN /\ pc' = "app" /\ ai' = ai + 1
            /\ UNCHANGED <<log, title, page, visited, list_failed, existing_issue_number>>
       ELSE LET printed == [op |-> "compare", app |-> app, name |-> name,
                            target_revision |-> target_revision,
                            latest_version |-> latest_version]
            IN  IF Triggers(latest_version, target_revision)
                THEN /\ title' = Title(name, latest_version)
                     /\ log' = log \o <<printed, [op |-> "check_existing_issue",
                                                  app |-> app, title |-> title']>>
                     /\ page' = 1
                     /\ visited' = <<>>
                     /\ list_failed' = FALSE
                     /\ existing_issue_number' = <<>>
                     /\ pc' = "list" /\ ai' = ai
                ELSE /\ log' = Append(log, printed)
                     /\ pc' = "app" /\ ai' = ai + 1
                     /\ UNCHANGED <<title, page, visited, list_failed, existing_issue_number>>
    /\ UNCHANGED <<env, tracker, run, fi, latest_version, maintainers_data, assignees,
                   created_before>>

\* check_existing_issue without its except clause
ListFailureEscapes == "uncaught"

\* lines 99-102: the except clause logs the failure and returns None, so that
\* main() goes on with line 207
AfterListFailure == "decide"

\* what check_existing_issue hands back to main()
ReturnedEntry(result, failed) ==
    [op |-> "returned", app |-> app, result |-> result, failed |-> failed]

\* lines 82-104: one turn of the loop of check_existing_issue, that is one
\* request of a page of the open issues and the scan of the page
ListPage ==
    /\ pc = "list"
    /\ visited' = Append(visited, page)
    /\ \E ok \in BOOLEAN :
          LET request == [op |-> "list_issues", app |-> app, page |-> page]
              found == ScanPage(PageOf(tracker, page), title)
          IN  IF ~ok
              THEN /\ list_failed' = TRUE
                   /\ existing_issue_number' = <<>>
                   /\ pc' = AfterListFailure
                   /\ page' = page
                   /\ log' = log \o <<request, ReturnedEntry(<<>>, TRUE)>>
              ELSE /\ list_failed' = FALSE
                   /\ existing_issue_number' = found
                   /\ IF found = <<>> /\ HasNext(tracker, page)
                      THEN /\ pc' = "list" /\ page' = page + 1
                           /\ log' = Append(log, request)
                      ELSE /\ pc' = "decide" /\ page' = page
                           /\ log' = log \o <<request, ReturnedEntry(found, FALSE)>>
    /\ UNCHANGED <<env, tracker, run, fi, ai, response, latest_version, title,
                   maintainers_data, assignees, created_before>>

\* line 207 with the result of the lookup ignored
CreatesRegardless(number) == TRUE

\* line 207: not existing_issue_number
NoExistingIssue(number) == number = <<>>

\* lines 207-213 and 225-226: what main() does with the result of the lookup,
\* up to the call of create_github_issue
Decide ==
    /\ pc = "decide"
    /\ IF NoExistingIssue(existing_issue_number)
       THEN \E file \in MaintainerDocs :
               /\ maintainers_data' = file
               /\ assignees' = get_maintainers(file, app_group)
               /\ pc' = "create" /\ ai' = ai
               /\ log' = log
       ELSE /\ log' = Append(log, [op |-> "already_exists", app |-> app,
                                   number |-> existing_issue_number])
            /\ pc' = "app" /\ ai' = ai + 1
            /\ UNCHANGED <<maintainers_data, assignees>>
    /\ UNCHANGED <<env, tracker, run, fi, response, latest_version, title, page,
                   visited, list_failed, existing_issue_number, created_before>>

\* lines 215-224 and 106-129: the body and create_github_issue
CreateIssue ==
    /\ pc = "create"
    /\ \E ok \in BOOLEAN :
          /\ log' = Append(log, [op |-> "create_issue", app |-> app, title |-> title,
                                 body |-> Body(name, target_revision, latest_version,
                                               REPO, app_group),
                                 assignees |-> assignees, ok |-> ok])
          /\ tracker' = IF ok THEN <<Issue(title, Len(tracker) + 1)>> \o tracker
                        ELSE tracker
    /\ maintainers_data' = NoDoc
    /\ pc' = "app"
    /\ ai' = ai + 1
    /\ UNCHANGED <<env, run, fi, response, latest_version, title, page, visited,
                   list_failed, existing_issue_number, assignees, created_before>>

\* the issues the run has created, by application
CreatedIn(l) ==
    {[app |-> l[i].app, title |-> l[i].title] :
        i \in {j \in DOMAIN l : l[j].op = "create_issue" /\ l[j].ok}}

\* the checker is started again, on the same files and the same tracker
Rerun ==
    /\ pc \in Terminal
    /\ run < MaxRuns
    /\ run' = run + 1
    /\ pc' = "start"
    /\ fi' = 0
    /\ ai' = 0
    /\ response' = NoResponse
    /\ latest_version' = PyNone
    /\ title' = ""
    /\ page' = 0
    /\ visited' = <<>>
    /\ list_failed' = FALSE
    /\ existing_issue_number' = <<>>
    /\ maintainers_data' = NoDoc
    /\ assignees' = <<>>
    /\ log' = <<>>
    /\ created_before' = created_before \cup CreatedIn(log)
    /\ UNCHANGED <<env, tracker>>

Next ==
    \/ Start
    \/ NextFile
    \/ EndOfFile
    \/ NextApp
    \/ GetLatestHelmVersion
    \/ Compare
    \/ ListPage
    \/ Decide
    \/ CreateIssue
    \/ Finish
    \/ Rerun

Spec == Init /\ [][Next]_vars

TypeOK ==
    /\ pc \in {"start", "file", "app", "resolve", "compare", "list", "decide", "create"}
              \cup Terminal
    /\ run \in 1..MaxRuns

(***************************************************************************)
(* Vocabulary of the properties.                                           *)
(***************************************************************************)
Ops(op) == {i \in DOMAIN log : log[i].op = op}

\* the calls of create_github_issue the run has made for application p
CreatesFor(p) == {i \in Ops("create_issue") : log[i].app = p}

\* the calls of check_existing_issue the run has made for application p
LookupsFor(p) == {i \in Ops("check_existing_issue") : log[i].app = p}

\* main() has left the loop body of application p
Completed(p) == p[1] < fi \/ (p[1] = fi /\ p[2] < ai)

\* the record of application p in its values.yaml
DetailsOf(p) == values_yaml[values_files[p[1]]].apps[p[2]].details
NameOf(p) == values_yaml[values_files[p[1]]].apps[p[2]].name

Contains(seq, x) == \E i \in DOMAIN seq : seq[i] = x

\* C1: for every application whose latest version resolved (main() printed the
\* comparison), the lookup of "New Version Available: <name> <latest>" is made
\* if and only if latest differs from the declared version and the declared
\* version is not empty; ("", "v2") and ("v1", "v1") never trigger and
\* ("v1", "v2") always does.
C1_TriggerIff ==
    \A i \in Ops("compare") :
        LET e == log[i]
            looked == \E j \in LookupsFor(e.app) :
                          log[j].title = Title(e.name, e.latest_version)
            raw == DetailsOf(e.app).targetRevision
        IN  /\ looked <=> (e.latest_version # e.target_revision /\ e.target_revision # "")
            /\ LookupsFor(e.app) # {} => looked
            /\ (raw = "" /\ e.latest_version = "v2") => ~looked
            /\ (raw = "v1" /\ e.latest_version = "v1") => ~looked
            /\ (raw = "v1" /\ e.latest_version = "v2") => looked

\* one application triggered on ("v1", "v2"), another with an empty declared
\* version was compared and did not
C1_Witness ==
    \E i, j \in Ops("compare") :
        /\ log[i].target_revision = "v1" /\ log[i].latest_version = "v2"
        /\ LookupsFor(log[i].app) # {}
        /\ log[j].target_revision = "" /\ LookupsFor(log[j].app) = {}

\* C2 as stated: an application for which an earlier run created an issue
\* gets no create-issue call in a later run on the same files, the same
\* upstream versions and the issue still open.
C2_NoSecondIssue ==
    \A c \in created_before : CreatesFor(c.app) = {}

\* C2, amended: an application for which an earlier run created an issue gets
\* no create-issue call in a later run unless a request of that run's lookup
\* of the title failed; a lookup whose requests all succeed finds the issue.
C2_NoSecondIssueUnlessListingFailed ==
    \A c \in created_before :
        /\ \A i \in CreatesFor(c.app) :
              \E j \in Ops("returned") :
                  j < i /\ log[j].app = c.app /\ log[j].failed
        /\ \A j \in Ops("returned") :
              (log[j].app = c.app /\ ~log[j].failed) => log[j].result # <<>>

\* a later run has looked the title of an earlier run's issue up, found the
\* issue and left the application without a create-issue call
C2_Witness ==
    \E c \in created_before :
        /\ Completed(c.app)
        /\ CreatesFor(c.app) = {}
        /\ \E j \in Ops("returned") :
              log[j].app = c.app /\ ~log[j].failed /\ log[j].result # <<>>
        /\ \E k \in DOMAIN tracker : tracker[k].title = c.title

\* the list get_maintainers is to return: the group's list when the group has
\* a non-empty one, else the list under 'default', else the empty list
ExpectedAssignees(file, group) ==
    IF file.state = "mapping" /\ group \in DOMAIN file.m /\ file.m[group] # <<>>
    THEN file.m[group]
    ELSE IF file.state = "mapping" /\ "default" \in DOMAIN file.m
    THEN file.m["default"]
    ELSE <<>>

\* the calls of create_github_issue, by what the lookup reported
C3_Calls ==
    /\ \A j \in Ops("returned") :
          LET p == log[j].app
          IN  /\ log[j].result # <<>> => CreatesFor(p) = {}
              /\ log[j].result = <<>> =>
                    /\ Cardinality(CreatesFor(p)) <= 1
                    /\ Completed(p) => Cardinality(CreatesFor(p)) = 1
    /\ \A i \in Ops("create_issue") :
          /\ \E j \in Ops("returned") : j < i /\ log[j].app = log[i].app
          /\ \E k \in Ops("compare") :
                /\ log[k].app = log[i].app
                /\ log[i].title = Title(NameOf(log[i].app), log[k].latest_version)
                /\ Contains(log[i].body, NameOf(log[i].app))
                /\ Contains(log[i].body, log[k].target_revision)
                /\ Contains(log[i].body, log[k].latest_version)

\* the call of create_github_issue passes the list read for the group
C3_Assignees ==
    pc = "create" =>
        /\ log' = Append(log, log'[Len(log')])
        /\ log'[Len(log')].op = "create_issue"
        /\ log'[Len(log')].app = app
        /\ log'[Len(log')].assignees = ExpectedAssignees(maintainers_data, app_group)

\* C3: when the lookup reports no issue, create_github_issue is called exactly
\* once for the application, with the title "New Version Available: <name>
\* <latest>", a body naming the application, the declared and the latest
\* version, and the maintainers of the group (else the default ones) as
\* assignees; when the lookup reports an issue, it is not called.
C3_CreateOnceOrNever == [](C3_Calls) /\ [][C3_Assignees]_vars

\* an issue was created with the group's own maintainers as assignees, and
\* another application's lookup reported an issue and no call was made
C3_Witness ==
    /\ \E i \in Ops("create_issue") :
          log[i].assignees = <<"gh-user2">> /\ Completed(log[i].app)
    /\ \E j \in Ops("returned") :
          log[j].result # <<>> /\ Completed(log[j].app) /\ CreatesFor(log[j].app) = {}

\* the first position of the tracker's listing that holds the title, 0 if none
FirstMatch(issues, t) ==
    IF \E i \in DOMAIN issues : issues[i].title = t
    THEN CHOOSE i \in DOMAIN issues :
            issues[i].title = t /\ \A j \in 1..(i - 1) : issues[j].title # t
    ELSE 0

\* the page that holds position i of the listing
PageHolding(i) == ((i - 1) \div PerPage) + 1

\* the last page reachable through "next" links
LastPage(issues) == IF issues = <<>> THEN 1 ELSE PageHolding(Len(issues))

\* the pages are requested in order from the first, and a found number is that
\* of the first match, found on the last page requested
C4_OrderAndFirstMatch ==
    /\ visited = [k \in 1..Len(visited) |-> k]
    /\ existing_issue_number # <<>> =>
          LET m == FirstMatch(tracker, title)
          IN  /\ m # 0
              /\ existing_issue_number = <<tracker[m].number>>
              /\ Len(visited) = PageHolding(m)

C5_GroupElseDefaultElseEmpty ==
    pc = "create" =>
        /\ maintainers_data \in MaintainerDocs
        /\ assignees = ExpectedAssignees(maintainers_data, app_group)

\* the group had no list of its own and the default list was returned
C5_Witness ==
    /\ pc = "create"
    /\ maintainers_data.state = "mapping"
    /\ app_group \notin DOMAIN maintainers_data.m
    /\ "default" \in DOMAIN maintainers_data.m
    /\ assignees = <<"gh-user1">>

\* C6: an application with no declared version (targetRevision absent, empty
\* or null) never triggers: no lookup and no create-issue call is made for it.
C6_NoDeclaredVersionNeverTriggers ==
    \A i \in Ops("check_existing_issue") \cup Ops("create_issue") :
        DetailsOf(log[i].app).targetRevision \notin {Absent, "", PyNone}

\* C7: once the fatal preconditions have passed, a run that found values.yaml
\* files ends with the end-of-run message and exit code 0, whatever fails on
\* the way.  (pc = "exit_1" is the end of a run whose preconditions failed.)
C7_RunReachesEndOfRun ==
    (pc \in Terminal /\ values_files # <<>>) => pc \in {"finished", "exit_1"}

\* C8: when a request of the listing fails, check_existing_issue returns none
\* and main() goes on as if no issue existed: the run is not aborted, the
\* application is not skipped, create_github_issue is called for it with the
\* title looked up, whether or not the tracker holds an issue of that title.
C8_ListingFailureCreates ==
    \A j \in Ops("returned") :
        LET p == log[j].app
        IN  log[j].failed =>
              /\ log[j].result = <<>>
              /\ Completed(p) \/ (p = app /\ pc \in {"decide", "create"})
              /\ Completed(p) =>
                    \E i \in CreatesFor(p) :
                        /\ i > j
                        /\ \E k \in LookupsFor(p) : log[k].title = log[i].title

\* a listing failed while the tracker held the issue, and the run created a
\* second issue of the same title
C8_Witness ==
    \E j \in Ops("returned") :
        /\ log[j].failed
        /\ \E i \in CreatesFor(log[j].app) :
              /\ log[i].ok
              /\ \E k1, k2 \in DOMAIN tracker :
                    k1 < k2 /\ tracker[k1].title = log[i].title
                            /\ tracker[k2].title = log[i].title

\* C9: for a repository URL that is empty, absent or "null",
\* get_latest_helm_version returns None without a request; a request is made
\* only for other URLs, and it asks for <repoURL>/index.yaml.
C9_NoRequestForInvalidUrl ==
    /\ \A i \in Ops("get_index") :
          /\ DetailsOf(log[i].app).repoURL \notin {PyNoneChars, <<>>, UrlNull}
          /\ log[i].url = UrlPlain \o IndexYaml
    /\ (pc = "compare" /\ details.repoURL \in {PyNoneChars, <<>>, UrlNull}) =>
          /\ latest_version = PyNone
          /\ \A i \in Ops("get_index") : log[i].app # app

\* the resolver has returned None for the URL "null" without a request
C9_Witness ==
    /\ pc = "compare"
    /\ details.repoURL = UrlNull
    /\ latest_version = PyNone
    /\ \A i \in Ops("get_index") : log[i].app # app

\* C10: after a successful fetch get_latest_helm_version returns the version
\* of the first entry listed for the chart, and for every other body (chart
\* absent, no entries, entry without version, not a mapping, not parsable) it
\* returns None and raises nothing to main().
C10_FirstEntryElseNotFound ==
    (pc \in {"compare", "uncaught"} /\ response.status = "ok") =>
        LET doc == response.doc
            listed == /\ doc.kind = "mapping" /\ doc.hasEntries
                      /\ details.chart \in DOMAIN doc.charts
                      /\ doc.charts[details.chart] # <<>>
                      /\ doc.charts[details.chart][1].hasVersion
        IN  /\ pc = "compare"
            /\ listed => latest_version = doc.charts[details.chart][1].version
            /\ ~listed => latest_version = PyNone

\* the applications of the groups whose values.yaml parsed to a mapping
Applications ==
    {p \in (DOMAIN values_files) \X {1} :
        /\ values_yaml[values_files[p[1]]].parse = "mapping"
        /\ p[2] \in DOMAIN values_yaml[values_files[p[1]]].apps}

\* the entries of the log that belong to the processing of an application
AppOps == {"skip_warning", "get_index", "compare", "check_existing_issue",
           "list_issues", "returned", "already_exists", "create_issue"}

EntriesFor(p, op) == {i \in Ops(op) : log[i].app = p}

\* the terminal states of the application state machine, read off the log
UPDATE_CREATED(p) == CreatesFor(p) # {}
UPDATE_EXISTS(p) == EntriesFor(p, "already_exists") # {}
NO_UPDATE(p) == EntriesFor(p, "compare") # {} /\ LookupsFor(p) = {}
SKIPPED(p) == EntriesFor(p, "compare") = {}

StatesOf(p) ==
    {st \in {"SKIPPED", "NO_UPDATE", "UPDATE_EXISTS", "UPDATE_CREATED"} :
        \/ st = "SKIPPED" /\ SKIPPED(p)
        \/ st = "NO_UPDATE" /\ NO_UPDATE(p)
        \/ st = "UPDATE_EXISTS" /\ UPDATE_EXISTS(p)
        \/ st = "UPDATE_CREATED" /\ UPDATE_CREATED(p)}

\* the run is over and got past the fatal preconditions and the discovery
RunOver == pc \in {"finished", "uncaught"}

\* what C11 says of one application
C11_Application(p) ==
    /\ \A op \in {"skip_warning", "get_index", "compare", "check_existing_issue",
                  "returned", "already_exists", "create_issue"} :
          Cardinality(EntriesFor(p, op)) <= 1
    /\ RunOver => Completed(p)
    /\ Completed(p) => Cardinality(StatesOf(p)) = 1
    /\ (~DetailsOf(p).isdict \/ ~Truthy(DetailsOf(p).chart)) =>
          /\ \A op \in AppOps \ {"skip_warning"} : EntriesFor(p, op) = {}
          /\ Completed(p) => StatesOf(p) = {"SKIPPED"}
    /\ \A i \in CreatesFor(p) : \E j \in LookupsFor(p) : j < i

\* C11: every application of every parsed group is visited once per run and
\* ends in exactly one of SKIPPED, NO_UPDATE, UPDATE_EXISTS, UPDATE_CREATED;
\* one that is no record or has no chart name ends SKIPPED without index
\* fetch, lookup or create call; a lookup precedes every create call of the
\* application and there is at most one create call for it.
C11_OneVisitOneTerminalState ==
    /\ \A p \in Applications : C11_Application(p)
    /\ \A i \in DOMAIN log : log[i].op \in AppOps => log[i].app \in Applications

\* the entries of the log written for the file at position k of values_files
OpensOf(k) == {i \in Ops("open") : log[i].file = k}

\* the file at position k failed to parse and nothing but that was done with it
OnlySkipped(i) ==
    /\ \A j \in DOMAIN log : log[j].op \in AppOps => log[j].app[1] # log[i].file
    /\ IF i < Len(log)
       THEN log[i + 1].op = "open" /\ log[i + 1].file = log[i].file + 1
       ELSE \/ pc = "file" /\ fi = log[i].file + 1
            \/ pc = "finished" /\ log[i].file = Len(values_files)

\* C12: with the repository identity unset, the token empty or the
\* maintainers file missing the run exits non-zero before it reads a
\* configuration file or sends a fetch, lookup or create request; a
\* configuration file that fails to parse is logged and only its own group
\* is skipped, every other discovered file is still opened and processed.
C12_FatalAbortsParseFailureConfined ==
    /\ ((REPO = PyNone \/ REPO = "" \/ github_token = "") /\ pc # "start") =>
          pc = "exit_1"
    /\ (\E i \in DOMAIN log : log[i].op = "fatal") <=> pc = "exit_1"
    /\ pc = "exit_1" => Len(log) = 1
    /\ \A i \in Ops("open") : log[i].parse = "error" => OnlySkipped(i)
    /\ \A k \in DOMAIN values_files :
          /\ Cardinality(OpensOf(k)) <= 1
          /\ \A i \in OpensOf(k) : log[i].parse = values_yaml[values_files[k]].parse
          /\ pc = "finished" => Cardinality(OpensOf(k)) = 1
          /\ (pc = "finished" /\ <<k, 1>> \in Applications) =>
                Completed(<<k, 1>>) /\ Cardinality(StatesOf(<<k, 1>>)) = 1

\* a run that finished after the first file failed to parse and an issue was
\* created for the application of the second file
C12_Witness ==
    /\ pc = "finished"
    /\ \E i \in Ops("open") : log[i].file = 1 /\ log[i].parse = "error"
    /\ \E j \in Ops("create_issue") : log[j].app[1] = 2

====
